---- MODULE Spec2Model ----
(***************************************************************************)
(* Model of cmd/blackbox/main.go: the cartesian-product generator          *)
(* (GetInputSets), the exploration driver (RunExploration), the result     *)
(* sink (RecordResults) and the coordination loop of main.                 *)
(*                                                                         *)
(* Strings are sequences of character codes, so that sort.Strings'         *)
(* lexicographic order can be computed; "" is <<>>.                        *)
(***************************************************************************)
EXTENDS Integers, Sequences, FiniteSets, TLC

\* ------------------------------------------------------------- bounds
\* Largest number of variables / examples per variable drawn for GetInputSets.
MaxVars == 3
MaxExamples == 2
\* Largest number of combinations a modelled pipeline run explores.
MaxCombos == 2
\* Largest number of setup rows drawn for GetVarsExamplesSets.
MaxRows == 2

\* ------------------------------------------------------------- strings
EmptyString == <<>>
\* example values "1", "2", ... ("1" is <<49>>)
Example(k) == <<48 + k>>
\* variable names "x", "y", ... in table order ("x" is <<120>>)
VarName(i) == <<119 + i>>
\* output field names "b", "ab" (sorted order: "ab" < "b")
FieldNames == {<<98>>, <<97, 98>>}
\* output value "p" (a lookup of a missing field gives "", so the cells of a
\* column still take two values)
FieldValues == {<<112>>}

\* Go's string comparison a < b: bytewise lexicographic.
RECURSIVE StrLess(_, _)
StrLess(a, b) ==
  IF Len(b) = 0 THEN FALSE
  ELSE IF Len(a) = 0 THEN TRUE
  ELSE IF a[1] # b[1] THEN a[1] < b[1]
  ELSE StrLess(Tail(a), Tail(b))

\* A Go map[string]string is a function from its key set to strings; a lookup
\* of a missing key yields the zero value "".
MapLookup(m, k) == IF k \in DOMAIN m THEN m[k] ELSE EmptyString

\* ------------------------------------------------------------- GetInputSets
RECURSIVE GetInputSets(_)

\* lines 150-154: the single-set branch appends one singleton per item; the
\* function does not return there, the head/tail loops below still run.
SingleSetBranch(exampleSets) ==
  IF Len(exampleSets) = 1
  THEN [k \in 1..Len(exampleSets[1]) |-> <<exampleSets[1][k]>>]
  ELSE <<>>

\* faulty variant: the sub-tuple is put before the head item.
AppendItemAfter(item, subitem) == subitem \o <<item>>

\* line 159: append([]string{item}, subitem...)
PrependItem(item, subitem) == <<item>> \o subitem

\* faulty variant: the nested loops exchanged (subitem outer, item inner).
RECURSIVE HeadTailProductSwapped(_, _)
HeadTailProductSwapped(head, sub) ==
  IF Len(sub) = 0 THEN <<>>
  ELSE [j \in 1..Len(head) |-> PrependItem(head[j], Head(sub))]
         \o HeadTailProductSwapped(head, Tail(sub))

\* lines 157-161: for each item of head, for each subitem of the tail's
\* product, append [item] + subitem to the result.
RECURSIVE HeadTailProduct(_, _)
HeadTailProduct(head, sub) ==
  IF Len(head) = 0 THEN <<>>
  ELSE [j \in 1..Len(sub) |-> PrependItem(Head(head), sub[j])]
         \o HeadTailProduct(Tail(head), sub)

\* faulty variant: the product of no sets is the one empty tuple.
EmptyProductOneTuple == << <<>> >>

\* lines 147-149: no example sets, no tuples.
EmptyProduct == <<>>

\* lines 145-163
GetInputSets(exampleSets) ==
  IF Len(exampleSets) = 0 THEN EmptyProduct
  ELSE SingleSetBranch(exampleSets)
         \o HeadTailProduct(Head(exampleSets), GetInputSets(Tail(exampleSets)))

\* ------------------------------------------------------------- RecordSortedKeys
\* faulty variant: keys in descending order.
StrBeforeDescending(a, b) == StrLess(b, a)

\* the order sort.Strings establishes
StrBefore(a, b) == StrLess(a, b)

RECURSIVE SortStrings(_)
SortStrings(S) ==
  IF S = {} THEN <<>>
  ELSE LET least == CHOOSE k \in S : \A o \in S \ {k} : StrBefore(k, o)
       IN <<least>> \o SortStrings(S \ {least})

RecordSortedKeys(output) == SortStrings(DOMAIN output)


\* ------------------------------------------------------------- GetVarsExamplesSets
Comma == <<44>>
\* " \t", the cutset of ExtractExamples
BlankCodes == {32, 9}
\* "\t \n", the cutset of the variable-name cell
NameBlankCodes == {9, 32, 10}

\* strings.Trim(s, cutset): the leading and trailing characters of the cutset
\* are removed.
RECURSIVE TrimLeft(_, _)
TrimLeft(s, cutset) ==
  IF Len(s) > 0 /\ s[1] \in cutset THEN TrimLeft(Tail(s), cutset) ELSE s

RECURSIVE TrimRight(_, _)
TrimRight(s, cutset) ==
  IF Len(s) > 0 /\ s[Len(s)] \in cutset
  THEN TrimRight(SubSeq(s, 1, Len(s) - 1), cutset)
  ELSE s

Trim(s, cutset) == TrimRight(TrimLeft(s, cutset), cutset)

\* strings.Split(s, ","): the pieces between the commas, empty pieces included
RECURSIVE SplitAtComma(_, _)
SplitAtComma(s, piece) ==
  IF Len(s) = 0 THEN <<piece>>
  ELSE IF <<s[1]>> = Comma THEN <<piece>> \o SplitAtComma(Tail(s), <<>>)
  ELSE SplitAtComma(Tail(s), Append(piece, s[1]))

\* lines 134-143: split at the commas, trim each piece, drop the empty ones
ExtractExamples(examplesCell) ==
  LET pieces == SplitAtComma(examplesCell, <<>>)
  IN SelectSeq([k \in 1..Len(pieces) |-> Trim(pieces[k], BlankCodes)],
               LAMBDA e : e # EmptyString)

\* the errors of lines 174 and 178 carry the row's (0-based) index; a row
\* with fewer than two cells makes setupRow[0] or setupRow[1] panic
NameErrorAt(i) == "Could not extract var name from row " \o ToString(i)
ExamplesErrorAt(i) == "Could not extract examples from row " \o ToString(i)
IndexPanic == "runtime error: index out of range"

\* lines 169-182: the loop body for the row at 0-based index i, given the
\* names and example sets collected so far
RECURSIVE ParseRowsFrom(_, _, _, _)
ParseRowsFrom(setupRows, i, names, sets) ==
  IF i >= Len(setupRows)
  THEN [names |-> names, sets |-> sets, err |-> "nil"]
  ELSE LET setupRow == setupRows[i + 1]
       IN IF Len(setupRow) < 2
          THEN [names |-> names, sets |-> sets, err |-> IndexPanic]
          ELSE LET varName == Trim(setupRow[1], NameBlankCodes)
                   examples == ExtractExamples(setupRow[2])
               IN IF varName = EmptyString
                  THEN [names |-> names, sets |-> sets, err |-> NameErrorAt(i)]
                  ELSE IF Len(examples) = 0
                  THEN [names |-> names, sets |-> sets, err |-> ExamplesErrorAt(i)]
                  ELSE ParseRowsFrom(setupRows, i + 1, Append(names, varName),
                                     Append(sets, examples))

\* lines 165-185
GetVarsExamplesSets(setupRows) == ParseRowsFrom(setupRows, 0, <<>>, <<>>)

\* ------------------------------------------------------------- inputs
\* An example set of k distinct values "1".."k", as ExtractExamples leaves it.
ExamplePrefix(k) == [j \in 1..k |-> Example(j)]

RECURSIVE SeqsUpTo(_, _)
\* the non-empty sequences over S of length at most n
SeqsUpTo(S, n) ==
  IF n = 0 THEN {}
  ELSE LET shorter == SeqsUpTo(S, n - 1)
       IN {<<x>> : x \in S} \cup shorter \cup {Append(q, x) : q \in shorter, x \in S}

\* every non-empty list of at most MaxExamples entries "1" or "2" (ExtractExamples
\* keeps repeated entries)
ExampleLists == SeqsUpTo({Example(1), Example(2)}, MaxExamples)

\* every list of at most MaxVars example lists, the empty list included
GeneratorInputs == {<<>>} \cup SeqsUpTo(ExampleLists, MaxVars)

RECURSIVE ProductSize(_)
ProductSize(sets) ==
  IF Len(sets) = 0 THEN 1 ELSE Len(Head(sets)) * ProductSize(Tail(sets))

\* the setups a pipeline run starts from: at least one variable (ReadSetupRows
\* rejects an empty sheet), duplicate-free example lists, at most MaxCombos
\* variables and at most MaxCombos combinations
PipelineInputs ==
  {es \in SeqsUpTo({ExamplePrefix(k) : k \in 1..MaxCombos}, MaxCombos) :
     ProductSize(es) <= MaxCombos}

\* the sheet rows that parse to the example sets es: "x" | "1,2"
RECURSIVE JoinExamples(_)
JoinExamples(examples) ==
  IF Len(examples) = 1 THEN Head(examples)
  ELSE Head(examples) \o Comma \o JoinExamples(Tail(examples))

SetupRowsFor(es) == [i \in 1..Len(es) |-> <<VarName(i), JoinExamples(es[i])>>]

\* name cells "", " x", "x", "y" and example cells "", "1", "1, 2", " ,"
NameCells == {<<>>, <<32, 120>>, <<120>>, <<121>>}
ExampleCells == {<<>>, <<49>>, <<49, 44, 32, 50>>, <<32, 44>>}

\* a sheet row as ReadSetupRows delivers it: the cells up to the last
\* non-empty one, so possibly none or only the name cell
SetupRowPool ==
  {<<>>} \cup {<<n>> : n \in NameCells}
         \cup {<<n, e>> : n \in NameCells, e \in ExampleCells}

\* every sheet of one to MaxRows such rows that is rejected or yields at most
\* MaxCombos combinations
SetupInputs ==
  {rows \in SeqsUpTo(SetupRowPool, MaxRows) :
     LET parsed == GetVarsExamplesSets(rows)
     IN parsed.err = "nil" => ProductSize(parsed.sets) <= MaxCombos}

\* the OutputRecords a child program can answer with: any flat map over a
\* subset of FieldNames, the empty map included
Records == UNION {[S -> FieldValues] : S \in SUBSET FieldNames}

NoError == "nil"
InvocationError == "invocation error"
SinkError == "sink error"
ClosedChannelPanic == "send on closed channel"

\* ------------------------------------------------------------- state
VARIABLES
  setupRows,     \* main: the rows ReadSetupRows returned
  exampleSets,   \* main: the example sets parsed from the setup rows
  varNames,      \* main: the variable names parsed from the setup rows
  inputSets,     \* main: result of GetInputSets
  mainPc,        \* main: "setup", "start", "spawn", "select", "defer1".."defer3", "end"
  mainPanic,     \* main: the error main panicked with, NoError if none
  proc,          \* the process: "running", "exited" (status 0), "crashed"
  exitErr,       \* the error the process crashed with
  closed,        \* closed[c]: channel c has been closed
  drvPc,         \* RunExploration goroutine position
  idx,           \* RunExploration: 1-based index of the current inputSet
  outputVars,    \* RunExploration: the output columns
  outputMap,     \* RunExploration: the current invocation's output
  drvErr,        \* RunExploration: its return value
  snkPc,         \* RecordResults goroutine position
  currentLine,   \* RecordResults: next row position
  resultLine,    \* RecordResults: the row taken from the channel
  snkErr,        \* RecordResults: its return value
  table,         \* the destination sheet: row position -> cells
  sent,          \* history: rows whose send on resultChannel completed
  sentKind,      \* history: "header" / "data" for each row of sent
  invoked,       \* history: indices of the inputSets an invocation started for
  returned,      \* history: the OutputRecords of the successful invocations
  writeFailed,   \* history: some Update call of RecordResults failed
  inputMap,      \* RunBlackBoxCmd: the request built for the current invocation
  writers        \* RunBlackBoxCmd: the invocations whose stdin-writer goroutine
                 \* has not finished

vars == <<setupRows, exampleSets, varNames, inputSets, mainPc, mainPanic, proc, exitErr,
          closed, drvPc, idx, outputVars, outputMap, drvErr, snkPc, currentLine,
          resultLine, snkErr, table, sent, sentKind, invoked, returned,
          writeFailed, inputMap, writers>>

mainVars == <<mainPc, mainPanic>>
inputVars == <<setupRows, exampleSets, varNames, inputSets>>
drvVars == <<drvPc, idx, outputVars, outputMap, drvErr>>
snkVars == <<snkPc, currentLine, resultLine, snkErr, table, writeFailed>>
histVars == <<sent, sentKind, invoked, returned>>
procVars == <<proc, exitErr>>
invVars == <<inputMap, writers>>

Channels == {"resultChannel", "recordErrorChannel", "exploreErrorChannel"}

InitWith(es) ==
  /\ setupRows = SetupRowsFor(es)
  /\ exampleSets = es
  /\ varNames = [i \in 1..Len(es) |-> VarName(i)]
  /\ inputSets = <<>>
  /\ mainPc = "start"
  /\ mainPanic = NoError
  /\ proc = "running"
  /\ exitErr = NoError
  /\ closed = [c \in Channels |-> FALSE]
  /\ drvPc = "unborn"
  /\ idx = 1
  /\ outputVars = <<>>
  /\ outputMap = <<>>
  /\ drvErr = NoError
  /\ snkPc = "unborn"
  /\ currentLine = 1
  /\ resultLine = <<>>
  /\ snkErr = NoError
  /\ table = <<>>
  /\ sent = <<>>
  /\ sentKind = <<>>
  /\ invoked = <<>>
  /\ returned = <<>>
  /\ writeFailed = FALSE
  /\ inputMap = <<>>
  /\ writers = {}

\* main after ReadSetupRows returned rows
InitWithRows(rows) ==
  /\ setupRows = rows
  /\ exampleSets = <<>>
  /\ varNames = <<>>
  /\ inputSets = <<>>
  /\ mainPc = "setup"
  /\ mainPanic = NoError
  /\ proc = "running"
  /\ exitErr = NoError
  /\ closed = [c \in Channels |-> FALSE]
  /\ drvPc = "unborn"
  /\ idx = 1
  /\ outputVars = <<>>
  /\ outputMap = <<>>
  /\ drvErr = NoError
  /\ snkPc = "unborn"
  /\ currentLine = 1
  /\ resultLine = <<>>
  /\ snkErr = NoError
  /\ table = <<>>
  /\ sent = <<>>
  /\ sentKind = <<>>
  /\ invoked = <<>>
  /\ returned = <<>>
  /\ writeFailed = FALSE
  /\ inputMap = <<>>
  /\ writers = {}

Init == \E es \in PipelineInputs : InitWithRows(SetupRowsFor(es))


\* ------------------------------------------------------------- main
\* lines 335-338: the rows are parsed; an error is panicked with, and so is
\* the runtime error of indexing a row that is too short. No deferred call is
\* registered yet, so the process dies at once.
MainGetVarsExamplesSets ==
  /\ proc = "running"
  /\ mainPc = "setup"
  /\ LET parsed == GetVarsExamplesSets(setupRows)
     IN /\ varNames' = parsed.names
        /\ exampleSets' = parsed.sets
        /\ IF parsed.err = NoError
           THEN /\ mainPc' = "start"
                /\ UNCHANGED <<mainPanic, procVars>>
           ELSE /\ mainPc' = "end"
                /\ mainPanic' = parsed.err
                /\ proc' = "crashed"
                /\ exitErr' = parsed.err
  /\ UNCHANGED <<invVars, setupRows, inputSets, closed, drvVars, snkVars, histVars>>

\* line 339: inputSets := GetInputSets(exampleSets)
MainGetInputSets ==
  /\ proc = "running"
  /\ mainPc = "start"
  /\ inputSets' = GetInputSets(exampleSets)
  /\ mainPc' = "spawn"
  /\ UNCHANGED <<invVars, setupRows, exampleSets, varNames, mainPanic, procVars, closed,
                 drvVars, snkVars, histVars>>

\* lines 348-361: the three channels are made (unbuffered) and the two
\* goroutines are started.
MainSpawn ==
  /\ proc = "running"
  /\ mainPc = "spawn"
  /\ mainPc' = "select"
  /\ drvPc' = "loop"
  /\ snkPc' = "range"
  /\ UNCHANGED <<invVars, inputVars, mainPanic, procVars, closed, idx, outputVars,
                 outputMap, drvErr, currentLine, resultLine, snkErr, table,
                 writeFailed, histVars>>

\* faulty variant: a sink error is received and dropped.
MainAfterRecordIgnoring(err) == "select"

\* lines 365-368: a non-nil sink result panics, a nil one loops.
MainAfterRecord(err) == IF err # NoError THEN "defer1" ELSE "select"

\* faulty variant: a driver error is received and dropped.
MainAfterExploreIgnoring(err) == IF err # NoError THEN "select" ELSE "defer1"

\* lines 369-373: a non-nil driver result panics, a nil one returns; either
\* way main leaves the loop and its deferred closes run.
MainAfterExplore(err) == "defer1"

\* lines 356, 365-368: the sink's send on recordErrorChannel meets main's
\* select.
MainRecvRecord ==
  /\ proc = "running"
  /\ mainPc = "select"
  /\ snkPc = "report"
  /\ ~closed["recordErrorChannel"]
  /\ snkPc' = "done"
  /\ mainPc' = MainAfterRecord(snkErr)
  /\ mainPanic' = snkErr
  /\ UNCHANGED <<invVars, inputVars, procVars, closed, drvVars, currentLine, resultLine,
                 snkErr, table, writeFailed, histVars>>

\* lines 360, 369-373: the driver's send on exploreErrorChannel meets main's
\* select.
MainRecvExplore ==
  /\ proc = "running"
  /\ mainPc = "select"
  /\ drvPc = "report"
  /\ ~closed["exploreErrorChannel"]
  /\ drvPc' = "done"
  /\ mainPc' = MainAfterExplore(drvErr)
  /\ mainPanic' = drvErr
  /\ UNCHANGED <<invVars, inputVars, procVars, closed, idx, outputVars, outputMap,
                 drvErr, snkVars, histVars>>

\* the deferred calls of lines 349-353 run last-in first-out when main
\* returns or panics.
DeferClose(pc, ch, next) ==
  /\ proc = "running"
  /\ mainPc = pc
  /\ closed' = [closed EXCEPT ![ch] = TRUE]
  /\ mainPc' = next
  /\ UNCHANGED <<invVars, inputVars, mainPanic, procVars, drvVars, snkVars, histVars>>

\* line 353
MainCloseExploreError == DeferClose("defer1", "exploreErrorChannel", "defer2")
\* line 351
MainCloseRecordError == DeferClose("defer2", "recordErrorChannel", "defer3")
\* line 349
MainCloseResult == DeferClose("defer3", "resultChannel", "end")

\* main has returned (exit status 0) or its panic reaches the top of the
\* goroutine (the process dies with the panic's error); the other goroutines
\* are not waited for.
MainExit ==
  /\ proc = "running"
  /\ mainPc = "end"
  /\ proc' = IF mainPanic = NoError THEN "exited" ELSE "crashed"
  /\ exitErr' = mainPanic
  /\ UNCHANGED <<invVars, inputVars, mainVars, closed, drvVars, snkVars, histVars>>


\* ------------------------------------------------------------- RunBlackBoxCmd
\* line 199: inputMap[key] = value, replacing an entry the key already has
MapSet(m, key, value) == (key :> value) @@ m

\* lines 197-200: the request maps varNames[i] to inputSet[i], for i in order
RECURSIVE FillInputMap(_, _, _, _)
FillInputMap(m, names, inputSet, i) ==
  IF i > Len(inputSet) THEN m
  ELSE FillInputMap(MapSet(m, names[i], inputSet[i]), names, inputSet, i + 1)

BuildInputMap(names, inputSet) == FillInputMap(<<>>, names, inputSet, 1)

\* lines 212-215: the goroutine writes the request to the child's stdin and
\* closes it; the results of Write and Close are dropped, and nothing waits
\* for the goroutine: cmd.Output (line 218) returns when the child has exited,
\* whether or not the child read its input.
WriterFinishes ==
  /\ proc = "running"
  /\ \E w \in writers : writers' = writers \ {w}
  /\ UNCHANGED <<inputVars, mainVars, procVars, closed, drvVars, snkVars,
                 histVars, inputMap>>

\* ------------------------------------------------------------- RunExploration
\* line 264: the header is due while outputVars is empty
HeaderDue(vars_) == Len(vars_) = 0

\* line 267: append(varNames, outputVars...)
HeaderRow(names, vars_) == names \o vars_

\* faulty variant: a field the record lacks shifts the later cells left.
ResultLineSkipping(inputSet, vars_, output) ==
  inputSet \o SelectSeq([k \in 1..Len(vars_) |-> MapLookup(output, vars_[k])],
                        LAMBDA c : c # EmptyString)

\* lines 269-272: the inputSet's values, then output[outputVar] for each
\* outputVar in order
ResultLine(inputSet, vars_, output) ==
  inputSet \o [k \in 1..Len(vars_) |-> MapLookup(output, vars_[k])]

\* faulty variant: the error is looked at only after the row has been sent.
DrvAfterFailureSendingRow == "row"

\* lines 261-263: a failed invocation makes RunExploration return the error
DrvAfterFailure == "report"

\* faulty variant: the inputSets are walked from the last to the first.
InputSetAtReversed(sets, i) == sets[Len(sets) + 1 - i]

\* line 256: inputSet is the i-th element of inputSets
InputSetAt(sets, i) == sets[i]

\* lines 256-258, 197-215: the loop takes the next inputSet and starts its
\* invocation: the request is built, the child and the stdin writer start.
DrvStartInvocation ==
  /\ proc = "running"
  /\ drvPc = "loop"
  /\ idx <= Len(inputSets)
  /\ drvPc' = "invoking"
  /\ invoked' = Append(invoked, idx)
  /\ inputMap' = BuildInputMap(varNames, InputSetAt(inputSets, idx))
  /\ writers' = writers \cup {idx}
  /\ UNCHANGED <<inputVars, mainVars, procVars, closed, idx, outputVars,
                 outputMap, drvErr, snkVars, sent, sentKind, returned>>

\* lines 256, 275: the loop is exhausted, RunExploration returns nil.
DrvLoopEnd ==
  /\ proc = "running"
  /\ drvPc = "loop"
  /\ idx > Len(inputSets)
  /\ drvErr' = NoError
  /\ drvPc' = "report"
  /\ UNCHANGED <<invVars, inputVars, mainVars, procVars, closed, idx, outputVars,
                 outputMap, snkVars, histVars>>

\* lines 258-263: RunBlackBoxCmd returns an error (launch failure, non-zero
\* exit, undecodable output).
DrvInvocationFails ==
  /\ proc = "running"
  /\ drvPc = "invoking"
  /\ drvErr' = InvocationError
  /\ drvPc' = DrvAfterFailure
  /\ UNCHANGED <<invVars, inputVars, mainVars, procVars, closed, idx, outputVars,
                 outputMap, snkVars, histVars>>

\* lines 258-266: RunBlackBoxCmd returns an OutputRecord; the columns are
\* derived from it when the header is due.
DrvInvocationSucceeds ==
  /\ proc = "running"
  /\ drvPc = "invoking"
  /\ \E r \in Records :
       /\ outputMap' = r
       /\ returned' = Append(returned, r)
       /\ IF HeaderDue(outputVars)
          THEN outputVars' = RecordSortedKeys(r) /\ drvPc' = "header"
          ELSE outputVars' = outputVars /\ drvPc' = "row"
  /\ UNCHANGED <<invVars, inputVars, mainVars, procVars, closed, idx, drvErr, snkVars,
                 sent, sentKind, invoked>>

\* faulty variant: a send also completes while the sink is still writing the
\* previous row, which is then replaced.
HandoverNoWait(row, kind) ==
  /\ snkPc \in {"range", "update"}
  /\ ~closed["resultChannel"]
  /\ resultLine' = row
  /\ snkPc' = "update"
  /\ sent' = Append(sent, row)
  /\ sentKind' = Append(sentKind, kind)

\* resultChannel is unbuffered: a send completes in the step in which the
\* sink's range takes the row (line 234).
Handover(row, kind) ==
  /\ snkPc = "range"
  /\ ~closed["resultChannel"]
  /\ resultLine' = row
  /\ snkPc' = "update"
  /\ sent' = Append(sent, row)
  /\ sentKind' = Append(sentKind, kind)

\* line 267
DrvSendHeader ==
  /\ proc = "running"
  /\ drvPc = "header"
  /\ Handover(HeaderRow(varNames, outputVars), "header")
  /\ drvPc' = "row"
  /\ UNCHANGED <<invVars, inputVars, mainVars, procVars, closed, idx, outputVars,
                 outputMap, drvErr, currentLine, snkErr, table, writeFailed,
                 invoked, returned>>

\* line 273, and the loop's step to the next inputSet
DrvSendRow ==
  /\ proc = "running"
  /\ drvPc = "row"
  /\ Handover(ResultLine(InputSetAt(inputSets, idx), outputVars, outputMap), "data")
  /\ drvPc' = "loop"
  /\ idx' = idx + 1
  /\ UNCHANGED <<invVars, inputVars, mainVars, procVars, closed, outputVars, outputMap,
                 drvErr, currentLine, snkErr, table, writeFailed, invoked,
                 returned>>

\* a goroutine sending on a channel main's deferred close has closed panics,
\* which ends the process.
Crash ==
  /\ proc' = "crashed"
  /\ exitErr' = ClosedChannelPanic

\* lines 267, 273, 360 against the closes of lines 349, 353
DrvSendOnClosed ==
  /\ proc = "running"
  /\ \/ drvPc \in {"header", "row"} /\ closed["resultChannel"]
     \/ drvPc = "report" /\ closed["exploreErrorChannel"]
  /\ Crash
  /\ UNCHANGED <<invVars, inputVars, mainVars, closed, drvVars, snkVars, histVars>>

\* ------------------------------------------------------------- RecordResults
\* faulty variant: the row position is never advanced.
NextLineStuck(line) == line

\* line 248: currentLine++
NextLine(line) == line + 1

\* line 244: Update writes the row at "A<currentLine>"
UpdateAt(sheet, line, row) == (line :> row) @@ sheet

\* lines 244-248: the Update call succeeds.
SinkUpdateOk ==
  /\ proc = "running"
  /\ snkPc = "update"
  /\ table' = UpdateAt(table, currentLine, resultLine)
  /\ currentLine' = NextLine(currentLine)
  /\ snkPc' = "range"
  /\ UNCHANGED <<invVars, inputVars, mainVars, procVars, closed, drvVars, resultLine,
                 snkErr, writeFailed, histVars>>

\* lines 244-247: the Update call fails, RecordResults returns the error.
SinkUpdateFails ==
  /\ proc = "running"
  /\ snkPc = "update"
  /\ snkErr' = SinkError
  /\ writeFailed' = TRUE
  /\ snkPc' = "report"
  /\ UNCHANGED <<invVars, inputVars, mainVars, procVars, closed, drvVars, currentLine,
                 resultLine, table, histVars>>

\* lines 234, 250: resultChannel is closed, the range ends, RecordResults
\* returns nil.
SinkRangeEnds ==
  /\ proc = "running"
  /\ snkPc = "range"
  /\ closed["resultChannel"]
  /\ snkErr' = NoError
  /\ snkPc' = "report"
  /\ UNCHANGED <<invVars, inputVars, mainVars, procVars, closed, drvVars, currentLine,
                 resultLine, table, writeFailed, histVars>>

\* line 356 against the close of line 351
SinkSendOnClosed ==
  /\ proc = "running"
  /\ snkPc = "report"
  /\ closed["recordErrorChannel"]
  /\ Crash
  /\ UNCHANGED <<invVars, inputVars, mainVars, closed, drvVars, snkVars, histVars>>

\* ------------------------------------------------------------- specifications
Next ==
  \/ MainGetVarsExamplesSets
  \/ MainGetInputSets
  \/ MainSpawn
  \/ MainRecvRecord
  \/ MainRecvExplore
  \/ MainCloseExploreError
  \/ MainCloseRecordError
  \/ MainCloseResult
  \/ MainExit
  \/ DrvStartInvocation
  \/ DrvLoopEnd
  \/ DrvInvocationFails
  \/ DrvInvocationSucceeds
  \/ DrvSendHeader
  \/ DrvSendRow
  \/ DrvSendOnClosed
  \/ SinkUpdateOk
  \/ SinkUpdateFails
  \/ SinkRangeEnds
  \/ SinkSendOnClosed
  \/ WriterFinishes

Spec == Init /\ [][Next]_vars

\* The Go scheduler runs every runnable goroutine eventually, and a select
\* with a ready case proceeds.
FairSpec == Spec /\ WF_vars(Next)

\* The run from every sheet of setup rows within the bounds, malformed rows
\* included.
SetupInit == \E rows \in SetupInputs : InitWithRows(rows)

SetupSpec == SetupInit /\ [][Next]_vars

\* GetInputSets alone, on every list of example lists within the bounds.
GenInit == \E es \in GeneratorInputs : InitWith(es)

GenNext == MainGetInputSets

GenSpec == GenInit /\ [][GenNext]_vars


\* ------------------------------------------------------------- properties
Range(q) == {q[k] : k \in DOMAIN q}

\* the number of data rows among the first p rows sent
DataRowsUpTo(p) == Cardinality({k \in 1..p : sentKind[k] = "data"})

RowsSent == Len(sent)
RowsWritten == Cardinality(DOMAIN table)

MainLeftSelect == mainPc \in {"defer1", "defer2", "defer3", "end"}

\* C1: when the process ends normally on a run in which every invocation and
\* every sink write succeeded, every row sent by RunExploration has been
\* written by RecordResults.
C1_AllRowsWrittenAtNormalExit ==
  (proc = "exited" /\ drvErr = NoError /\ ~writeFailed)
     => RowsWritten = RowsSent

\* C2: a run in which a RecordResults write failed never ends with the
\* success outcome.
C2_WriteFailureNeverSuccess ==
  writeFailed => proc # "exited"

\* C3: the destination table is a prefix of the rows sent: position N holds
\* the N-th row sent and nothing else, at most the last row sent is not yet
\* written, and position 1 holds the header.
C3_TableIsPrefixOfSent ==
  /\ DOMAIN table = 1..(currentLine - 1)
  /\ RowsWritten <= RowsSent
  /\ RowsSent <= RowsWritten + 1
  /\ \A n \in DOMAIN table : table[n] = sent[n]
  /\ 1 \in DOMAIN table =>
       /\ sentKind[1] = "header"
       /\ table[1] = varNames \o SortStrings(DOMAIN returned[1])

C3_Witness ==
  /\ RowsWritten = 3
  /\ table[2] # table[3]
  /\ table[1] # table[2]

\* C4: the header row is sent exactly once, first; after m >= 1 completed
\* combinations exactly m + 1 rows have been sent, whatever the records.
C4_HeaderExactlyOnce ==
  /\ \A p \in 1..Len(sentKind) : (sentKind[p] = "header") <=> (p = 1)
  /\ (drvPc \in {"loop", "invoking", "report", "done"} /\ idx > 1)
        => RowsSent = idx

\* C5: the output columns are the sorted field names of the first successful
\* invocation's record for the whole run, and every data row holds its own
\* record's values for exactly those columns ("" for a missing field).
C5_ColumnsFixedByFirstRecord ==
  Len(returned) >= 1 =>
    LET fixed == SortStrings(DOMAIN returned[1])
    IN /\ outputVars = fixed
       /\ \A p \in 1..Len(sent) :
            sentKind[p] = "data" =>
              LET k == DataRowsUpTo(p)
              IN sent[p] = inputSets[k]
                             \o [j \in 1..Len(fixed) |-> MapLookup(returned[k], fixed[j])]

\* C6 as claimed: once the invocation for a combination has failed, the
\* error main ends the run with is that invocation error.
C6_EndsWithInvocationError ==
  (drvErr = InvocationError /\ MainLeftSelect) => mainPanic = InvocationError

\* the state part of C6 as amended
C6_FailedInvocationState ==
  drvErr = InvocationError =>
    /\ drvPc \in {"report", "done"}
    /\ invoked = [k \in 1..idx |-> k]
    /\ Len(returned) = idx - 1
    /\ Len(sent) > 0 => DataRowsUpTo(Len(sent)) = idx - 1
    /\ proc # "exited"
    /\ MainLeftSelect => mainPanic \in {InvocationError, SinkError}

\* C6 (amended): after the invocation for combination i has failed, no row for
\* combination i is sent, no invocation is started for a later combination or
\* retried, and the run ends abnormally, never with success: main panics
\* with the invocation error, or with a sink write error that reached its
\* select first.
C6_FailedInvocationAbortsRun ==
  /\ []C6_FailedInvocationState
  /\ (drvErr = InvocationError) ~> (proc = "crashed")

C6_Witness ==
  /\ drvErr = InvocationError
  /\ idx = 2
  /\ proc = "crashed"
  /\ mainPanic = SinkError

\* C7: under fair scheduling every run terminates, and main leaves its select
\* loop on the first error it receives from either task.
C7_EveryRunTerminates ==
  /\ <>(proc # "running")
  /\ [](mainPanic # NoError => MainLeftSelect)

C7_Witness ==
  /\ proc = "crashed"
  /\ writeFailed
  /\ drvPc \in {"header", "row"}
  /\ mainPanic = SinkError


\* ---- GetInputSets, checked under GenSpec
Generated == mainPc = "spawn"

\* the cartesian product of the example lists, as a set of tuples
CartesianSet(es) ==
  {t \in [1..Len(es) -> UNION {Range(es[i]) : i \in 1..Len(es)}] :
     \A i \in 1..Len(es) : t[i] \in Range(es[i])}

DuplicateFree(q) == \A a, b \in DOMAIN q : q[a] = q[b] => a = b

\* the number of combinations of the example lists after the i-th
CombinationsAfter(es, i) == ProductSize(SubSeq(es, i + 1, Len(es)))

\* the combination at position p when the first variable varies slowest
CombinationAt(es, p) ==
  [i \in 1..Len(es) |->
     es[i][(((p - 1) \div CombinationsAfter(es, i)) % Len(es[i])) + 1]]

\* C8: for n >= 1 non-empty example lists GetInputSets returns s1*...*sn
\* tuples of length n, the set of tuples is the cartesian product, and no
\* tuple is produced twice (when no example list repeats a value).
C8_CartesianProduct ==
  (Generated /\ Len(exampleSets) >= 1) =>
    /\ Len(inputSets) = ProductSize(exampleSets)
    /\ \A p \in 1..Len(inputSets) : Len(inputSets[p]) = Len(exampleSets)
    /\ Range(inputSets) = CartesianSet(exampleSets)
    /\ (\A i \in 1..Len(exampleSets) : DuplicateFree(exampleSets[i]))
         => DuplicateFree(inputSets)

C8_Witness ==
  /\ Generated
  /\ Len(exampleSets) = 3
  /\ \A i \in 1..3 : Len(exampleSets[i]) = 2 /\ DuplicateFree(exampleSets[i])
  /\ Len(inputSets) = 8

\* C9: no example lists give no tuples; one example list of k values gives
\* exactly the k singleton tuples, in order, none of them twice.
C9_DegenerateCases ==
  Generated =>
    /\ Len(exampleSets) = 0 => inputSets = <<>>
    /\ Len(exampleSets) = 1 =>
         inputSets = [k \in 1..Len(exampleSets[1]) |-> <<exampleSets[1][k]>>]

C9_Witness ==
  /\ Generated
  /\ Len(exampleSets) = 1
  /\ Len(exampleSets[1]) = 2
  /\ Len(inputSets) = 2

\* C10: for n >= 1 the tuples come in lexicographic order of the example
\* indices, the first variable varying slowest and the last fastest.
C10_FirstVariableSlowest ==
  (Generated /\ Len(exampleSets) >= 1) =>
    /\ Len(inputSets) = ProductSize(exampleSets)
    /\ \A p \in 1..Len(inputSets) : inputSets[p] = CombinationAt(exampleSets, p)

C10_Witness ==
  /\ Generated
  /\ exampleSets = <<ExamplePrefix(2), ExamplePrefix(2)>>
  /\ inputSets = <<<<Example(1), Example(1)>>, <<Example(1), Example(2)>>,
                   <<Example(2), Example(1)>>, <<Example(2), Example(2)>>>>


\* ---- GetVarsExamplesSets, checked under SetupSpec
\* the k-th cell of a sheet row, "" when the row is shorter
CellOr(row, k) == IF k <= Len(row) THEN row[k] ELSE EmptyString

\* a row whose name is empty after trimming or that has no surviving example
MalformedRow(row) ==
  \/ Trim(CellOr(row, 1), NameBlankCodes) = EmptyString
  \/ Len(ExtractExamples(CellOr(row, 2))) = 0

\* C11: when some setup row has an empty name or no surviving example, the
\* run aborts with a configuration error that names the index of such a row,
\* before any invocation is started and before any row is written.
C11_MalformedRowReportedByIndex ==
  (mainPc # "setup" /\ \E i \in 1..Len(setupRows) : MalformedRow(setupRows[i]))
    => /\ proc = "crashed"
       /\ \E i \in 1..Len(setupRows) :
            /\ MalformedRow(setupRows[i])
            /\ exitErr \in {NameErrorAt(i - 1), ExamplesErrorAt(i - 1)}
       /\ invoked = <<>>
       /\ DOMAIN table = {}


\* ---- RunBlackBoxCmd
\* the tuple read back from the request by looking up each variable name
ReadBack(m, names) == [i \in 1..Len(names) |-> MapLookup(m, names[i])]

\* C12: for the variable names GetVarsExamplesSets accepted and every input
\* tuple, the request built by RunBlackBoxCmd gives the tuple back when each
\* variable name is looked up in order.
C12_RequestRoundTrip ==
  drvPc = "invoking" => ReadBack(inputMap, varNames) = InputSetAt(inputSets, idx)

\* C13: no stdin-writer goroutine is live once the RunBlackBoxCmd call that
\* started it has returned: a live writer belongs to the invocation in
\* progress.
C13_WriterJoined ==
  \A w \in writers : drvPc = "invoking" /\ idx = w


\* ---- rows and invocations
\* C14: as long as no invocation has succeeded nothing has been sent and the
\* table is empty; in particular a failed first invocation leaves no row.
C14_NoRowBeforeSuccess ==
  /\ Len(returned) = 0 =>
       /\ sent = <<>>
       /\ DOMAIN table = {}
       /\ currentLine = 1
  /\ (drvErr = InvocationError /\ idx = 1) => Len(returned) = 0

C14_Witness ==
  /\ proc = "crashed"
  /\ drvErr = InvocationError
  /\ idx = 1
  /\ exitErr = InvocationError
  /\ DOMAIN table = {}

\* C15: the rows sent exceed the rows written by at most one, the row not
\* yet written is the one the sink holds, and an invocation is in progress
\* only when the sink has taken the rows of all earlier combinations.
C15_Backpressure ==
  /\ RowsSent <= RowsWritten + 1
  /\ RowsSent > 0 => resultLine = sent[RowsSent]
  /\ RowsSent = RowsWritten + 1 => snkPc \in {"update", "report", "done"}
  /\ drvPc = "invoking" => DataRowsUpTo(RowsSent) = idx - 1

C15_Witness ==
  /\ drvPc = "row"
  /\ snkPc = "update"
  /\ idx = 2
  /\ RowsSent = RowsWritten + 1

\* the child programs started and not yet returned
ChildrenRunning ==
  Len(invoked) - Len(returned) - (IF drvErr = InvocationError THEN 1 ELSE 0)

\* C16: invocations are started in generator order, at most one child runs
\* at a time, an invocation starts only when every earlier one has succeeded
\* and its row has been sent, and the k-th data row starts with the k-th
\* tuple of GetInputSets.
C16_SequentialInGeneratorOrder ==
  /\ invoked = [k \in 1..Len(invoked) |-> k]
  /\ ChildrenRunning = (IF drvPc = "invoking" THEN 1 ELSE 0)
  /\ drvPc = "invoking" =>
       /\ Len(invoked) = idx
       /\ Len(returned) = idx - 1
       /\ DataRowsUpTo(RowsSent) = idx - 1
  /\ \A p \in 1..RowsSent :
       sentKind[p] = "data" =>
         SubSeq(sent[p], 1, Len(varNames))
           = GetInputSets(exampleSets)[DataRowsUpTo(p)]

C16_Witness ==
  /\ RowsSent > 0
  /\ DataRowsUpTo(RowsSent) = 2
  /\ Len(varNames) = 1
  /\ sent[RowsSent][1] = Example(2)
  /\ proc = "exited"

\* C17: a run whose invocations and writes all succeed does not end in the
\* panic of a send on a closed channel.
C17_NoSendOnClosedChannel ==
  (drvErr = NoError /\ ~writeFailed) => exitErr # ClosedChannelPanic

\* C18: every row sent in one run has the same number of cells.
C18_RowsSameWidth ==
  \A p, q \in 1..RowsSent : Len(sent[p]) = Len(sent[q])

====
